---- MODULE Spec2Model ----
(***************************************************************************)
(* Model of the jsweb request-processing security pipeline:                *)
(*   jsweb/middleware.py  DBSessionMiddleware, CSRFMiddleware              *)
(*   jsweb/static.py      serve_static                                     *)
(*   jsweb/auth.py        get_current_user, login_required, admin_required *)
(* Python strings are sequences of one-character strings, None is the      *)
(* value None of each domain.                                              *)
(***************************************************************************)
EXTENDS Integers, Sequences, FiniteSets, TLC

VARIABLES db, uowPending, committed, csrf, fsFiles, static, sfm,
          authNow, authIssued, authUsers, auth, authConfig, authJar, guard, pipe,
          fieldObjs, forms, formOp

dbVars == <<db, uowPending, committed>>

\* the state DBSessionMiddleware leaves alone
formVars == <<fieldObjs, forms, formOp>>

authVars == <<authNow, authIssued, authUsers, auth, authConfig, authJar>>

otherVarsDB == <<csrf, fsFiles, static, sfm, authVars, guard, pipe, formVars>>

(***************************************************************************)
(* Transactional Scope Binder: DBSessionMiddleware                         *)
(***************************************************************************)

\* number of requests that may be in flight at the same time
NumRequests == 2

Requests == 1..NumRequests

NoExc == "NoExc"

\* classes derived from Exception, as raised by handlers
ExceptionClass == {"ValueError", "RuntimeError", "CommitError", "TypeError"}

\* asyncio.CancelledError derives from BaseException only, so it is not here

HandlerExceptions == {"ValueError", "RuntimeError"}

ScopeTypes == {"http", "websocket"}

\* the unit of work db_session resolves to when called from request r
ScopeOfShared(r) == 1

ScopeOf(r) == r

\* `except Exception:` catches exc
CaughtByExceptException(exc) == exc \in ExceptionClass

\* the calls DBSessionMiddleware.__call__ makes on db_session once the
\* downstream chain has finished with exc (NoExc: returned normally);
\* commitExc is what db_session.commit() raises when it is called
DBSessionCallsNoRollback(exc, commitExc) ==
    (IF exc = NoExc THEN <<"commit">> ELSE <<>>) \o <<"remove">>

DBSessionCallsNoRemove(exc, commitExc) ==
    LET tryCalls == IF exc = NoExc THEN <<"commit">> ELSE <<>>
        leaving  == IF exc # NoExc THEN exc ELSE commitExc
    IN  tryCalls \o (IF CaughtByExceptException(leaving) THEN <<"rollback">> ELSE <<>>)

DBSessionCallsRemoveFirst(exc, commitExc) ==
    LET tryCalls == IF exc = NoExc THEN <<"commit">> ELSE <<>>
        leaving  == IF exc # NoExc THEN exc ELSE commitExc
    IN  <<"remove">> \o tryCalls
            \o (IF CaughtByExceptException(leaving) THEN <<"rollback">> ELSE <<>>)

DBSessionCalls(exc, commitExc) ==
    LET tryCalls    == IF exc = NoExc THEN <<"commit">> ELSE <<>>
        leaving     == IF exc # NoExc THEN exc ELSE commitExc
        exceptCalls == IF CaughtByExceptException(leaving) THEN <<"rollback">> ELSE <<>>
        finallyCalls == <<"remove">>
    IN  tryCalls \o exceptCalls \o finallyCalls

\* the exception that leaves DBSessionMiddleware.__call__ (bare `raise`)
DBSessionPropagated(exc, commitExc) ==
    IF exc # NoExc THEN exc ELSE commitExc

\* effect of a sequence of db_session calls on one unit of work
\* st = [pending |-> work not yet durable, durable |-> work made durable]
RECURSIVE ApplyCalls(_, _, _)
ApplyCalls(calls, st, commitExc) ==
    IF calls = <<>> THEN st
    ELSE LET c == Head(calls)
             next == IF c = "commit"
                     THEN IF commitExc = NoExc
                          THEN [pending |-> {}, durable |-> st.durable \cup st.pending]
                          ELSE st
                     ELSE [pending |-> {}, durable |-> st.durable]
         IN  ApplyCalls(Tail(calls), next, commitExc)

DBInit ==
    /\ db = [r \in Requests |->
               [pc |-> "idle", type |-> "http", worked |-> FALSE, exc |-> NoExc,
                commitExc |-> NoExc, calls |-> <<>>, raised |-> NoExc,
                overlapped |-> FALSE]]
    /\ uowPending = [s \in Requests |-> {}]
    /\ committed = {}

\* DBSessionMiddleware.__call__ is entered and awaits self.app
DBEnter(r, t) ==
    /\ db[r].pc = "idle"
    /\ db' = [db EXCEPT ![r].pc = "app", ![r].type = t]
    /\ UNCHANGED <<uowPending, committed, otherVarsDB>>

\* downstream code uses db_session: the unit of work is created on first use
DownstreamWork(r) ==
    /\ db[r].pc = "app"
    /\ ~db[r].worked
    /\ db' = [db EXCEPT ![r].worked = TRUE]
    /\ uowPending' = [uowPending EXCEPT ![ScopeOf(r)] = @ \cup {r}]
    /\ UNCHANGED <<committed, otherVarsDB>>

\* the rest of __call__ after the await, run without suspension
DBSessionExit(r, exc, commitExc) ==
    LET http  == db[r].type = "http"
        calls == IF http THEN DBSessionCalls(exc, commitExc) ELSE <<>>
        s     == ScopeOf(r)
        st    == ApplyCalls(calls, [pending |-> uowPending[s], durable |-> committed],
                            commitExc)
    IN  /\ db[r].pc = "app"
        /\ db' = [db EXCEPT ![r].pc = "done", ![r].exc = exc,
                            ![r].commitExc = IF http /\ exc = NoExc THEN commitExc ELSE NoExc,
                            ![r].calls = calls,
                            ![r].overlapped = \E q \in Requests \ {r} :
                                                 db[q].pc = "app" /\ db[q].worked,
                            ![r].raised = IF http THEN DBSessionPropagated(exc, commitExc)
                                          ELSE exc]
        /\ uowPending' = [uowPending EXCEPT ![s] = st.pending]
        /\ committed' = st.durable
        /\ UNCHANGED otherVarsDB

DownstreamReturns(r) ==
    \E commitExc \in {NoExc, "CommitError"} :
        /\ (db[r].type # "http" => commitExc = NoExc)
        /\ DBSessionExit(r, NoExc, commitExc)

DownstreamRaises(r) ==
    \E e \in HandlerExceptions : DBSessionExit(r, e, NoExc)

\* the task is cancelled while suspended in `await self.app(...)`
RequestCancelled(r) ==
    DBSessionExit(r, "CancelledError", NoExc)

DBNext ==
    \E r \in Requests :
        \/ \E t \in ScopeTypes : DBEnter(r, t)
        \/ DownstreamWork(r)
        \/ DownstreamReturns(r)
        \/ DownstreamRaises(r)
        \/ RequestCancelled(r)

Count(seq, x) == Cardinality({i \in 1..Len(seq) : seq[i] = x})

IndexOf(seq, x) == CHOOSE i \in 1..Len(seq) : seq[i] = x

FinishedHttp(r) == db[r].pc = "done" /\ db[r].type = "http"

(***************************************************************************)
(* CSRF Guard: CSRFMiddleware                                              *)
(***************************************************************************)

\* longest csrf token, in characters
MaxTokenLen == 2

AsciiChars == {"a", "b"}

\* "u00e9" stands for one character outside ASCII
TokenChars == AsciiChars \cup {"u00e9"}

RECURSIVE StringsUpTo(_, _)
StringsUpTo(chars, n) ==
    IF n = 0 THEN {<<>>}
    ELSE LET shorter == StringsUpTo(chars, n - 1)
         IN  shorter \cup {Append(s, c) : s \in shorter, c \in chars}

\* what dict.get("csrf_token") yields: None, or a str
NoToken == [present |-> FALSE, chars |-> <<>>]

TokenValues ==
    {NoToken} \cup {[present |-> TRUE, chars |-> s] : s \in StringsUpTo(TokenChars, MaxTokenLen)}

Methods == {"GET", "HEAD", "OPTIONS", "POST", "PUT", "PATCH", "DELETE"}

ProtectedMethodsAndGet == {"GET", "POST", "PUT", "PATCH", "DELETE"}

ProtectedMethods == {"POST", "PUT", "PATCH", "DELETE"}

\* how the request body is encoded: form-encoded, JSON, or something else
BodyKinds == {"form", "json", "other"}

\* (await req.form()).get("csrf_token") for a body of the given kind that
\* carries field as its csrf_token field (NoToken: no such field)
ReqFormGetFormOnly(kind, field) ==
    IF kind = "form" THEN field ELSE NoToken

ReqFormGet(kind, field) ==
    IF kind \in {"form", "json"} THEN field ELSE NoToken

\* a test for None only, under which the empty string counts as a token
TruthyNotNone(tok) == tok.present

\* Python truth value of None or a str
Truthy(tok) == tok.present /\ tok.chars # <<>>

IsAscii(str) == \A i \in 1..Len(str) : str[i] \in AsciiChars

\* secrets.compare_digest(a, b) on two str: TypeError unless both are ASCII
CompareDigestRaises(a, b) == ~IsAscii(a.chars) \/ ~IsAscii(b.chars)

CompareDigest(a, b) == a.chars = b.chars

NoResponse == [status |-> 0, body |-> ""]

CSRFMessage == "CSRF token missing or invalid."

Forbidden(body) == [status |-> 403, body |-> body]

\* CSRFMiddleware.__call__: what it sends, how often it calls self.app,
\* whether it awaited req.form(), and the exception that leaves it
CSRFCall(type, method, cookie_token, form_token) ==
    IF type # "http"
    THEN [response |-> NoResponse, downstream |-> 1, bodyRead |-> FALSE, exc |-> NoExc]
    ELSE IF method \in ProtectedMethods
    THEN IF ~Truthy(form_token) \/ ~Truthy(cookie_token)
         THEN [response |-> Forbidden(CSRFMessage), downstream |-> 0,
               bodyRead |-> TRUE, exc |-> NoExc]
         ELSE IF CompareDigestRaises(form_token, cookie_token)
         THEN [response |-> NoResponse, downstream |-> 0,
               bodyRead |-> TRUE, exc |-> "TypeError"]
         ELSE IF ~CompareDigest(form_token, cookie_token)
         THEN [response |-> Forbidden(CSRFMessage), downstream |-> 0,
               bodyRead |-> TRUE, exc |-> NoExc]
         ELSE [response |-> NoResponse, downstream |-> 1,
               bodyRead |-> TRUE, exc |-> NoExc]
    ELSE [response |-> NoResponse, downstream |-> 1, bodyRead |-> FALSE, exc |-> NoExc]

\* no call of CSRFMiddleware is in progress
CSRFIdle ==
    [handled |-> FALSE, type |-> "http", method |-> "GET",
     cookie |-> NoToken, body |-> "form", field |-> NoToken, form |-> NoToken,
     result |-> [response |-> NoResponse, downstream |-> 0,
                 bodyRead |-> FALSE, exc |-> NoExc]]

CSRFInit == csrf = CSRFIdle

\* one request goes through CSRFMiddleware
CSRFRequest ==
    /\ ~csrf.handled
    /\ \E type \in ScopeTypes, method \in Methods, cookie \in TokenValues,
          body \in BodyKinds, field \in TokenValues :
           /\ csrf' = [handled |-> TRUE, type |-> type, method |-> method,
                       cookie |-> cookie, body |-> body, field |-> field,
                       form |-> ReqFormGet(body, field),
                       result |-> CSRFCall(type, method, cookie,
                                           ReqFormGet(body, field))]
           /\ UNCHANGED <<dbVars, fsFiles, static, sfm, authVars, guard, pipe, formVars>>

\* the call has returned to the server
CSRFDone ==
    /\ csrf.handled
    /\ csrf' = CSRFIdle
    /\ UNCHANGED <<dbVars, fsFiles, static, sfm, authVars, guard, pipe, formVars>>

CSRFNext == CSRFRequest \/ CSRFDone

(***************************************************************************)
(* Static Asset Resolver: serve_static                                     *)
(***************************************************************************)

\* most path segments after the leading part of a request path
MaxSegments == 3

Slash == "/"

\* str.startswith
StartsWith(str, prefix) ==
    Len(prefix) <= Len(str) /\ SubSeq(str, 1, Len(prefix)) = prefix

\* str.endswith for a one-character suffix
EndsWithSlash(str) == Len(str) > 0 /\ str[Len(str)] = Slash

\* str.lstrip("/")
RECURSIVE LStripSlash(_)
LStripSlash(str) ==
    IF str # <<>> /\ Head(str) = Slash THEN LStripSlash(Tail(str)) ELSE str

\* str.split("/")
RECURSIVE SplitSlash(_)
SplitSlash(str) ==
    IF \A i \in 1..Len(str) : str[i] # Slash THEN <<str>>
    ELSE LET i == CHOOSE k \in 1..Len(str) :
                      str[k] = Slash /\ \A j \in 1..(k - 1) : str[j] # Slash
         IN  <<SubSeq(str, 1, i - 1)>> \o SplitSlash(SubSeq(str, i + 1, Len(str)))

\* "/".join(comps)
RECURSIVE JoinSlash(_)
JoinSlash(comps) ==
    IF comps = <<>> THEN <<>>
    ELSE IF Len(comps) = 1 THEN comps[1]
    ELSE comps[1] \o <<Slash>> \o JoinSlash(Tail(comps))

Dot == <<".">>

DotDot == <<".", ".">>

\* the loop of posixpath.normpath over the components
RECURSIVE NormComps(_, _, _)
NormComps(comps, new_comps, initial_slashes) ==
    IF comps = <<>> THEN new_comps
    ELSE LET comp == Head(comps)
             rest == Tail(comps)
         IN  IF comp = <<>> \/ comp = Dot
             THEN NormComps(rest, new_comps, initial_slashes)
             ELSE IF \/ comp # DotDot
                     \/ (initial_slashes = 0 /\ new_comps = <<>>)
                     \/ (new_comps # <<>> /\ new_comps[Len(new_comps)] = DotDot)
             THEN NormComps(rest, Append(new_comps, comp), initial_slashes)
             ELSE IF new_comps # <<>>
             THEN NormComps(rest, SubSeq(new_comps, 1, Len(new_comps) - 1), initial_slashes)
             ELSE NormComps(rest, new_comps, initial_slashes)

\* posixpath.normpath
NormPath(path) ==
    IF path = <<>> THEN Dot
    ELSE LET initial_slashes ==
                 IF ~StartsWith(path, <<Slash>>) THEN 0
                 ELSE IF StartsWith(path, <<Slash, Slash>>)
                         /\ ~StartsWith(path, <<Slash, Slash, Slash>>) THEN 2
                 ELSE 1
             joined == JoinSlash(NormComps(SplitSlash(path), <<>>, initial_slashes))
             result == [i \in 1..initial_slashes |-> Slash] \o joined
         IN  IF result = <<>> THEN Dot ELSE result

\* posixpath.join(a, b)
PathJoin(a, b) ==
    IF StartsWith(b, <<Slash>>) THEN b
    ELSE IF a = <<>> \/ EndsWithSlash(a) THEN a \o b
    ELSE a \o <<Slash>> \o b

\* os.getcwd() of the server process
Cwd == <<"/", "a">>

\* posixpath.abspath
AbsPath(path) ==
    NormPath(IF StartsWith(path, <<Slash>>) THEN path ELSE PathJoin(Cwd, path))

\* mimetypes.guess_type(path)[0] or "application/octet-stream"
ContentTypeNoDefault(path) ==
    LET name == SplitSlash(path)[Len(SplitSlash(path))]
    IN  IF Len(name) > 4 /\ SubSeq(name, Len(name) - 3, Len(name)) = <<".", "c", "s", "s">>
        THEN "text/css"
        ELSE "None"

ContentType(path) ==
    LET name == SplitSlash(path)[Len(SplitSlash(path))]
        dots == {i \in 2..Len(name) : name[i] = "."}
        ext  == IF dots = {} THEN <<>>
                ELSE SubSeq(name, (CHOOSE i \in dots : \A j \in dots : j <= i), Len(name))
    IN  IF ext = <<".", "c", "s", "s">> THEN "text/css"
        ELSE "application/octet-stream"

NoFile == <<>>

\* serve_static(request_path, static_url, static_dir) on a file system in
\* which files are the regular files and open() fails when readFails;
\* opened is the path given to open(), file the path whose bytes are returned
ServeStaticNoPrefixCheck(request_path, static_url, static_dir, files, readFails) ==
    LET relative_path == LStripSlash(SubSeq(request_path, Len(static_url) + 1,
                                            Len(request_path)))
        base_dir  == AbsPath(static_dir)
        full_path == NormPath(PathJoin(base_dir, relative_path))
    IN  IF ~StartsWith(full_path, base_dir)
        THEN [status |-> 403, text |-> "403 Forbidden", content_type |-> "text/html",
              opened |-> NoFile, file |-> NoFile]
        ELSE IF full_path \notin files
        THEN [status |-> 404, text |-> "404 Not Found", content_type |-> "text/html",
              opened |-> NoFile, file |-> NoFile]
        ELSE IF readFails
        THEN [status |-> 500, text |-> "500 Internal Server Error",
              content_type |-> "text/html", opened |-> full_path, file |-> NoFile]
        ELSE [status |-> 200, text |-> "", content_type |-> ContentType(full_path),
              opened |-> full_path, file |-> full_path]

ServeStatic(request_path, static_url, static_dir, files, readFails) ==
    IF ~StartsWith(request_path, static_url)
    THEN [status |-> 404, text |-> "404 Not Found", content_type |-> "text/html",
          opened |-> NoFile, file |-> NoFile]
    ELSE
    LET relative_path == LStripSlash(SubSeq(request_path, Len(static_url) + 1,
                                            Len(request_path)))
        base_dir  == AbsPath(static_dir)
        full_path == NormPath(PathJoin(base_dir, relative_path))
    IN  IF ~StartsWith(full_path, base_dir)
        THEN [status |-> 403, text |-> "403 Forbidden", content_type |-> "text/html",
              opened |-> NoFile, file |-> NoFile]
        ELSE IF full_path \notin files
        THEN [status |-> 404, text |-> "404 Not Found", content_type |-> "text/html",
              opened |-> NoFile, file |-> NoFile]
        ELSE IF readFails
        THEN [status |-> 500, text |-> "500 Internal Server Error",
              content_type |-> "text/html", opened |-> full_path, file |-> NoFile]
        ELSE [status |-> 200, text |-> "", content_type |-> ContentType(full_path),
              opened |-> full_path, file |-> full_path]

\* the regular files that may exist: two in the root directory /a/s, one in
\* its sibling /a/sp, one outside both
CandidateFiles ==
    { <<"/", "a", "/", "s", "/", "f">>,
      <<"/", "a", "/", "s", "/", "f", ".", "c", "s", "s">>,
      <<"/", "a", "/", "s", "p", "/", "f">>,
      <<"/", "f">> }

SegmentAlphabet ==
    { DotDot, Dot, <<>>, <<"s">>, <<"s", "p">>, <<"f">>, <<"f", ".", "c", "s", "s">> }

\* how a request path begins
PathLeads == { <<"/", "s">>, <<"/", "x">> }

StaticUrls == { <<"/", "s">>, <<"/", "s", "/">> }

StaticDirs == { <<"s">>, <<"/", "a", "/", "s", "/">> }

RECURSIVE PathTails(_)
PathTails(n) ==
    IF n = 0 THEN {<<>>}
    ELSE LET shorter == PathTails(n - 1)
         IN  shorter \cup {t \o <<Slash>> \o seg : t \in shorter, seg \in SegmentAlphabet}

RequestPaths == {lead \o tail : lead \in PathLeads, tail \in PathTails(MaxSegments)}

\* no call of serve_static is in progress
StaticIdle ==
    [handled |-> FALSE, request_path |-> <<>>, static_url |-> <<>>,
     static_dir |-> <<>>, readFails |-> FALSE,
     result |-> [status |-> 0, text |-> "", content_type |-> "",
                 opened |-> NoFile, file |-> NoFile]]

StaticInit ==
    /\ fsFiles = {}
    /\ static = StaticIdle

\* the environment creates or deletes a file
FsChange ==
    /\ ~static.handled
    /\ ~sfm.handled
    /\ ~pipe.handled
    /\ \E f \in CandidateFiles :
           /\ fsFiles' = IF f \in fsFiles THEN fsFiles \ {f} ELSE fsFiles \cup {f}
           /\ UNCHANGED <<dbVars, csrf, static, sfm, authVars, guard, pipe, formVars>>

\* one call of serve_static
StaticRequest ==
    /\ ~static.handled
    /\ \E request_path \in RequestPaths, static_url \in StaticUrls,
          static_dir \in StaticDirs, readFails \in BOOLEAN :
           /\ static' = [handled |-> TRUE, request_path |-> request_path,
                         static_url |-> static_url, static_dir |-> static_dir,
                         readFails |-> readFails,
                         result |-> ServeStatic(request_path, static_url, static_dir,
                                                fsFiles, readFails)]
           /\ UNCHANGED <<dbVars, csrf, fsFiles, sfm, authVars, guard, pipe, formVars>>

\* the response has been returned to the caller
StaticDone ==
    /\ static.handled
    /\ static' = StaticIdle
    /\ UNCHANGED <<dbVars, csrf, fsFiles, sfm, authVars, guard, pipe, formVars>>

StaticNext == FsChange \/ StaticRequest \/ StaticDone

(***************************************************************************)
(* Static roots in priority order: StaticFilesMiddleware                   *)
(***************************************************************************)

\* most blueprints with static files
MaxBlueprints == 2

\* blueprints: url /s on folder /a/s, url /s/s on folder /a/sp, and one
\* whose static_url_path is not set
BlueprintChoices ==
    { [static_url_path |-> <<"/", "s">>, static_folder |-> <<"/", "a", "/", "s">>],
      [static_url_path |-> <<"/", "s", "/", "s">>,
       static_folder |-> <<"/", "a", "/", "s", "p">>],
      [static_url_path |-> <<>>, static_folder |-> <<"/", "a", "/", "s", "p">>] }

RECURSIVE BlueprintLists(_)
BlueprintLists(n) ==
    IF n = 0 THEN {<<>>}
    ELSE LET shorter == BlueprintLists(n - 1)
         IN  shorter \cup {Append(l, bp) : l \in shorter, bp \in BlueprintChoices}

\* req.path
MiddlewarePaths ==
    { <<"/", "s", "/", "f">>, <<"/", "s", "/", "s", "/", "f">>,
      <<"/", "x", "/", "f">>, <<"/", "f">>,
      <<"/", "s", "/", ".", ".", "/", "s", "p", "/", "f">>,
      <<"/", "s", "/", ".", ".", "/", "f">> }

GlobalStaticUrls == { <<"/", "s">>, <<"/", "x">> }

NoStaticResponse ==
    [status |-> 0, text |-> "", content_type |-> "", opened |-> NoFile, file |-> NoFile]

\* StaticFilesMiddleware.__call__ that goes on to the global root and then
\* downstream when a blueprint root answers 404
StaticFilesCallFallThrough(type, path, static_url, static_dir, blueprint_statics, files, readFails) ==
    LET matching == {i \in 1..Len(blueprint_statics) :
                        /\ blueprint_statics[i].static_url_path # <<>>
                        /\ StartsWith(path, blueprint_statics[i].static_url_path)}
        i   == CHOOSE k \in matching : \A j \in matching : k <= j
        bp  == blueprint_statics[i]
        bpr == ServeStatic(path, bp.static_url_path, bp.static_folder, files, readFails)
        bpc == <<[static_url |-> bp.static_url_path, static_dir |-> bp.static_folder]>>
    IN  IF type # "http"
        THEN [root |-> "none", index |-> 0, response |-> NoStaticResponse,
              calls |-> <<>>, downstream |-> 1]
        ELSE IF matching # {} /\ bpr.status # 404
        THEN [root |-> "blueprint", index |-> i, response |-> bpr, calls |-> bpc,
              downstream |-> 0]
        ELSE IF StartsWith(path, static_url)
        THEN [root |-> "global", index |-> 0,
              response |-> ServeStatic(path, static_url, static_dir, files, readFails),
              calls |-> (IF matching # {} THEN bpc ELSE <<>>)
                           \o <<[static_url |-> static_url, static_dir |-> static_dir]>>,
              downstream |-> 0]
        ELSE [root |-> "none", index |-> 0, response |-> NoStaticResponse,
              calls |-> IF matching # {} THEN bpc ELSE <<>>, downstream |-> 1]

\* StaticFilesMiddleware.__call__: the root that served ("blueprint" with its
\* index in blueprint_statics, "global", or "none"), the response sent, the
\* roots serve_static was called for and how often self.app was called
StaticFilesCall(type, path, static_url, static_dir, blueprint_statics, files, readFails) ==
    LET matching == {i \in 1..Len(blueprint_statics) :
                        /\ blueprint_statics[i].static_url_path # <<>>
                        /\ StartsWith(path, blueprint_statics[i].static_url_path)}
    IN  IF type # "http"
        THEN [root |-> "none", index |-> 0, response |-> NoStaticResponse,
              calls |-> <<>>, downstream |-> 1]
        ELSE IF matching # {}
        THEN LET i  == CHOOSE k \in matching : \A j \in matching : k <= j
                 bp == blueprint_statics[i]
             IN  [root |-> "blueprint", index |-> i,
                  response |-> ServeStatic(path, bp.static_url_path, bp.static_folder,
                                           files, readFails),
                  calls |-> <<[static_url |-> bp.static_url_path,
                               static_dir |-> bp.static_folder]>>,
                  downstream |-> 0]
        ELSE IF StartsWith(path, static_url)
        THEN [root |-> "global", index |-> 0,
              response |-> ServeStatic(path, static_url, static_dir, files, readFails),
              calls |-> <<[static_url |-> static_url, static_dir |-> static_dir]>>,
              downstream |-> 0]
        ELSE [root |-> "none", index |-> 0, response |-> NoStaticResponse,
              calls |-> <<>>, downstream |-> 1]

\* no call of StaticFilesMiddleware is in progress
StaticFilesIdle ==
    [handled |-> FALSE, type |-> "http", path |-> <<>>, static_url |-> <<>>,
     static_dir |-> <<>>, blueprint_statics |-> <<>>, readFails |-> FALSE,
     result |-> [root |-> "none", index |-> 0, response |-> NoStaticResponse,
                 calls |-> <<>>, downstream |-> 0]]

StaticFilesInit == sfm = StaticFilesIdle

\* one request goes through StaticFilesMiddleware
StaticFilesRequest ==
    /\ ~sfm.handled
    /\ \E type \in ScopeTypes, path \in MiddlewarePaths, static_url \in GlobalStaticUrls,
          blueprint_statics \in BlueprintLists(MaxBlueprints), readFails \in BOOLEAN :
           /\ sfm' = [handled |-> TRUE, type |-> type, path |-> path,
                      static_url |-> static_url, static_dir |-> <<"s">>,
                      blueprint_statics |-> blueprint_statics, readFails |-> readFails,
                      result |-> StaticFilesCall(type, path, static_url, <<"s">>,
                                                 blueprint_statics, fsFiles, readFails)]
           /\ UNCHANGED <<dbVars, csrf, fsFiles, static, authVars, guard, pipe, formVars>>

\* the call has returned to the server
StaticFilesDone ==
    /\ sfm.handled
    /\ sfm' = StaticFilesIdle
    /\ UNCHANGED <<dbVars, csrf, fsFiles, static, authVars, guard, pipe, formVars>>

StaticFilesNext == FsChange \/ StaticFilesRequest \/ StaticFilesDone

\* path is base or lies below it, segment by segment
IsUnder(path, base) ==
    LET p == SplitSlash(path)
        b == SplitSlash(base)
    IN  Len(b) <= Len(p) /\ SubSeq(p, 1, Len(b)) = b

(***************************************************************************)
(* Token Codec and Session Authenticator: login_user, get_current_user     *)
(***************************************************************************)

\* max_age passed to _serializer.loads, in seconds
MaxAge == 2592000

\* most steps of the clock
MaxTicks == 2

\* most tokens issued by login_user
MaxIssued == 2

UserIds == {1, 2}

\* the key init_auth gave the serializer, and a key of somebody else
SecretKey == "secret"

AttackerKey == "attacker"

\* a token is the sequence of the parts its text has between separators "."
IdPart(i) == [kind |-> "id", n |-> i, key |-> "", over |-> <<>>]

TsPart(t) == [kind |-> "ts", n |-> t, key |-> "", over |-> <<>>]

JunkPart == [kind |-> "junk", n |-> 0, key |-> "", over |-> <<>>]

\* the HMAC of value under key
SigPart(key, value) == [kind |-> "sig", n |-> 0, key |-> key, over |-> value]

\* what request.cookies.get("session") yields: None, or a str
NoCookie == [present |-> FALSE, parts |-> <<>>]

Cookie(parts) == [present |-> TRUE, parts |-> parts]

\* URLSafeTimedSerializer.dumps(user_id) at time now
Dumps(user_id, now, secret) ==
    LET value == <<IdPart(user_id), TsPart(now)>>
    IN  Append(value, SigPart(secret, value))

\* Signer.unsign: split off the signature and verify it
SignerUnsign(parts, secret) ==
    IF Len(parts) < 2
    THEN [exc |-> "BadSignature", value |-> <<>>]
    ELSE LET value == SubSeq(parts, 1, Len(parts) - 1)
             sig   == parts[Len(parts)]
         IN  IF sig = SigPart(secret, value)
             THEN [exc |-> NoExc, value |-> value]
             ELSE [exc |-> "BadSignature", value |-> value]

\* TimestampSigner.unsign that never looks at the age of the token
TimestampUnsignNoExpiry(parts, max_age, now, secret) ==
    LET unsigned == SignerUnsign(parts, secret)
        result   == unsigned.value
    IN  IF unsigned.exc # NoExc \/ Len(result) < 2 \/ result[Len(result)].kind # "ts"
        THEN [exc |-> "BadTimeSignature", value |-> <<>>]
        ELSE [exc |-> NoExc, value |-> SubSeq(result, 1, Len(result) - 1)]

\* TimestampSigner.unsign(signed_value, max_age)
TimestampUnsign(parts, max_age, now, secret) ==
    LET unsigned  == SignerUnsign(parts, secret)
        sig_error == unsigned.exc # NoExc
        result    == unsigned.value
    IN  IF Len(result) < 2
        THEN [exc |-> IF sig_error THEN unsigned.exc ELSE "BadTimeSignature", value |-> <<>>]
        ELSE LET value == SubSeq(result, 1, Len(result) - 1)
                 ts    == result[Len(result)]
             IN  IF sig_error THEN [exc |-> "BadTimeSignature", value |-> <<>>]
                 ELSE IF ts.kind # "ts" THEN [exc |-> "BadTimeSignature", value |-> <<>>]
                 ELSE IF now - ts.n > max_age THEN [exc |-> "SignatureExpired", value |-> <<>>]
                 ELSE IF now - ts.n < 0 THEN [exc |-> "SignatureExpired", value |-> <<>>]
                 ELSE [exc |-> NoExc, value |-> value]

\* URLSafeTimedSerializer.loads(token, max_age)
Loads(parts, max_age, now, secret) ==
    LET unsigned == TimestampUnsign(parts, max_age, now, secret)
    IN  IF unsigned.exc # NoExc THEN [exc |-> unsigned.exc, user_id |-> 0]
        ELSE IF Len(unsigned.value) = 1 /\ unsigned.value[1].kind = "id"
        THEN [exc |-> NoExc, user_id |-> unsigned.value[1].n]
        ELSE [exc |-> "BadPayload", user_id |-> 0]

NoneUser == [none |-> TRUE, id |-> 0, is_admin |-> "absent", truthy |-> FALSE]

\* the user loader given to init_auth: user 1 is an administrator
UserLoader(user_id, users) ==
    IF user_id \in users
    THEN [none |-> FALSE, id |-> user_id,
          is_admin |-> IF user_id = 1 THEN "true" ELSE "false", truthy |-> TRUE]
    ELSE NoneUser

\* `except (SignatureExpired, BadTimeSignature):` catches exc
CaughtByGetCurrentUser(exc) == exc \in {"SignatureExpired", "BadTimeSignature"}

\* get_current_user that answers from the identities known at start-up
\* instead of asking the loader
GetCurrentUserStale(session_token, now, secret, users) ==
    IF ~session_token.present \/ session_token.parts = <<>>
    THEN [ret |-> NoneUser, exc |-> NoExc, loads |-> "NotCalled", loaderCalls |-> <<>>]
    ELSE LET loaded == Loads(session_token.parts, MaxAge, now, secret)
         IN  IF loaded.exc = NoExc
             THEN [ret |-> UserLoader(loaded.user_id, UserIds), exc |-> NoExc,
                   loads |-> NoExc, loaderCalls |-> <<>>]
             ELSE [ret |-> NoneUser,
                   exc |-> IF CaughtByGetCurrentUser(loaded.exc) THEN NoExc ELSE loaded.exc,
                   loads |-> loaded.exc, loaderCalls |-> <<>>]

\* get_current_user(request): the value returned, the exception raised, the
\* exception of _serializer.loads ("NotCalled" when it was not called) and
\* the identities the loader was called with
GetCurrentUser(session_token, now, secret, users) ==
    IF ~session_token.present \/ session_token.parts = <<>>
    THEN [ret |-> NoneUser, exc |-> NoExc, loads |-> "NotCalled", loaderCalls |-> <<>>]
    ELSE LET loaded == Loads(session_token.parts, MaxAge, now, secret)
         IN  IF loaded.exc = NoExc
             THEN [ret |-> UserLoader(loaded.user_id, users), exc |-> NoExc,
                   loads |-> NoExc, loaderCalls |-> <<loaded.user_id>>]
             ELSE IF CaughtByGetCurrentUser(loaded.exc)
             THEN [ret |-> NoneUser, exc |-> NoExc, loads |-> loaded.exc,
                   loaderCalls |-> <<>>]
             ELSE [ret |-> NoneUser, exc |-> loaded.exc, loads |-> loaded.exc,
                   loaderCalls |-> <<>>]

ForgedSig == SigPart(AttackerKey, <<>>)

\* replace part i of token by part p
Replace(token, i, p) == [token EXCEPT ![i] = p]

\* the session cookies a client may send when it has seen the tokens issued
SessionCookies(issued, now) ==
    LET alternatives == {JunkPart, ForgedSig, TsPart(now)}
                            \cup {IdPart(i) : i \in UserIds}
                            \cup {t[3] : t \in issued}
        genuine   == issued
        truncated == UNION {{SubSeq(t, 1, 1), SubSeq(t, 1, 2), SubSeq(t, 2, 3),
                             SubSeq(t, 3, 3)} : t \in issued}
        tampered  == {Replace(t, i, p) : t \in issued, i \in 1..3, p \in alternatives}
        made      == {<<JunkPart>>, <<JunkPart, JunkPart>>, <<JunkPart, ForgedSig>>,
                      <<JunkPart, JunkPart, JunkPart>>}
                         \cup {<<IdPart(i), TsPart(now), ForgedSig>> : i \in UserIds}
    IN  {NoCookie, Cookie(<<>>)}
            \cup {Cookie(t) : t \in genuine \cup truncated \cup tampered \cup made}

\* no call of get_current_user is in progress
AuthIdle ==
    [handled |-> FALSE, cookie |-> NoCookie,
     result |-> [ret |-> NoneUser, exc |-> NoExc, loads |-> "NotCalled",
                 loaderCalls |-> <<>>]]

\* init_auth(secret_key, user_loader_func): the module globals _serializer
\* (by its key) and _user_loader
InitAuth(secret_key, user_loader_func) ==
    [serializer |-> secret_key, user_loader |-> user_loader_func]

AuthInit ==
    /\ authNow = 0
    /\ authIssued = {}
    /\ authUsers = UserIds
    /\ auth = AuthIdle
    /\ authConfig = InitAuth(SecretKey, "user_loader_func")
    /\ authJar = NoCookie

\* login_user(response, user): the token set as the session cookie
LoginUser ==
    /\ ~auth.handled
    /\ \E user_id \in UserIds :
           LET session_token == Dumps(user_id, authNow, authConfig.serializer)
           IN  /\ Cardinality(authIssued \cup {session_token}) <= MaxIssued
               /\ authJar # Cookie(session_token)
               /\ authIssued' = authIssued \cup {session_token}
               /\ authJar' = Cookie(session_token)
               /\ UNCHANGED <<authNow, authUsers, auth, authConfig, dbVars, csrf,
                              fsFiles, static, sfm, guard, pipe, formVars>>

\* logout_user that also drops the serializer's key
LogoutUserForgetsKey ==
    /\ ~auth.handled
    /\ authJar.present
    /\ authJar' = NoCookie
    /\ authConfig' = InitAuth("", authConfig.user_loader)
    /\ UNCHANGED <<authNow, authIssued, authUsers, auth, dbVars, csrf, fsFiles,
                   static, sfm, guard, pipe, formVars>>

\* logout_user(response): the session cookie is deleted at the client
LogoutUser ==
    /\ ~auth.handled
    /\ authJar.present
    /\ authJar' = NoCookie
    /\ UNCHANGED <<authNow, authIssued, authUsers, auth, authConfig, dbVars, csrf,
                   fsFiles, static, sfm, guard, pipe, formVars>>

\* time passes: a second, or the maximum age of a token
Tick ==
    /\ ~auth.handled
    /\ \E later \in {authNow + 1, authNow + MaxAge} :
           /\ (later \div MaxAge) + (later % MaxAge) <= MaxTicks
           /\ authNow' = later
           /\ UNCHANGED <<authIssued, authUsers, auth, authConfig, authJar, dbVars, csrf, fsFiles, static, sfm, guard, pipe, formVars>>

\* the identity of user 2 ceases to exist
DeleteUser ==
    /\ ~auth.handled
    /\ 2 \in authUsers
    /\ authUsers' = authUsers \ {2}
    /\ UNCHANGED <<authNow, authIssued, auth, authConfig, authJar, dbVars, csrf, fsFiles, static, sfm, guard, pipe, formVars>>

\* one call of get_current_user
AuthRequest ==
    /\ ~auth.handled
    /\ \E cookie \in SessionCookies(authIssued, authNow) :
           /\ auth' = [handled |-> TRUE, cookie |-> cookie,
                       result |-> GetCurrentUser(cookie, authNow, authConfig.serializer,
                                                 authUsers)]
           /\ UNCHANGED <<authNow, authIssued, authUsers, authConfig, authJar, dbVars, csrf, fsFiles, static, sfm, guard, pipe, formVars>>

\* get_current_user has returned to its caller
AuthDone ==
    /\ auth.handled
    /\ auth' = AuthIdle
    /\ UNCHANGED <<authNow, authIssued, authUsers, authConfig, authJar, dbVars, csrf, fsFiles, static, sfm, guard, pipe, formVars>>

AuthNext == LoginUser \/ LogoutUser \/ Tick \/ DeleteUser \/ AuthRequest \/ AuthDone

(***************************************************************************)
(* Access Guards: login_required, admin_required                           *)
(***************************************************************************)

\* the values a handler may be called with
HandlerArgs == {1, 2, 3}

\* redirect(url_for(request, endpoint))
Redirect(endpoint) == [kind |-> "redirect", endpoint |-> endpoint, result |-> 0]

\* the response the wrapped handler returns when called with arg
HandlerResponse(arg) == [kind |-> "handler", endpoint |-> "", result |-> arg]

\* the values request.user may have: None, or a user object
UserValues ==
    {NoneUser} \cup
    [none : {FALSE}, id : UserIds, is_admin : {"absent", "true", "false"},
     truthy : BOOLEAN]

\* Python truth value of request.user
UserTruthy(user) == ~user.none /\ user.truthy

\* getattr(request.user, 'is_admin', False)
IsAdmin(user) == user.is_admin = "true"

\* handler(request, arg): a synchronous handler returns its response, a
\* coroutine function returns a coroutine object that has not run yet
HandlerCall(coroutine, arg) ==
    IF coroutine THEN [kind |-> "coroutine", endpoint |-> "", result |-> arg]
    ELSE HandlerResponse(arg)

\* `await x` of a coroutine object of the handler
Await(x) == HandlerResponse(x.result)

\* the tail of both wrappers: `if asyncio.iscoroutinefunction(handler):
\* return await handler(...) else: return handler(...)`
CallHandler(coroutine, arg) ==
    [response |-> IF coroutine THEN Await(HandlerCall(coroutine, arg))
                  ELSE HandlerCall(coroutine, arg),
     handlerCalls |-> <<arg>>]

\* login_required(handler)(request, arg): the response returned and the
\* arguments of every call of handler
LoginRequiredNoCheck(user, coroutine, arg) == CallHandler(coroutine, arg)

LoginRequired(user, coroutine, arg) ==
    IF ~UserTruthy(user)
    THEN [response |-> Redirect("auth.login"), handlerCalls |-> <<>>]
    ELSE CallHandler(coroutine, arg)

\* admin_required(handler)(request, arg)
AdminRequiredLoginOnly(user, coroutine, arg) ==
    IF ~UserTruthy(user)
    THEN [response |-> Redirect("admin.index"), handlerCalls |-> <<>>]
    ELSE CallHandler(coroutine, arg)

AdminRequired(user, coroutine, arg) ==
    IF ~UserTruthy(user) \/ ~IsAdmin(user)
    THEN [response |-> Redirect("admin.index"), handlerCalls |-> <<>>]
    ELSE CallHandler(coroutine, arg)

Guards == {"login_required", "admin_required"}

\* no call of a guarded handler is in progress
GuardIdle ==
    [handled |-> FALSE, which |-> "login_required", user |-> NoneUser,
     coroutine |-> FALSE, arg |-> 1,
     result |-> [response |-> Redirect(""), handlerCalls |-> <<>>]]

GuardInit == guard = GuardIdle

\* one call of a guarded handler; the handler is a coroutine function or not
GuardRequest ==
    /\ ~guard.handled
    /\ \E which \in Guards, user \in UserValues, coroutine \in BOOLEAN, arg \in HandlerArgs :
           /\ guard' = [handled |-> TRUE, which |-> which, user |-> user,
                        coroutine |-> coroutine, arg |-> arg,
                        result |-> IF which = "login_required"
                                   THEN LoginRequired(user, coroutine, arg)
                                   ELSE AdminRequired(user, coroutine, arg)]
           /\ UNCHANGED <<dbVars, csrf, fsFiles, static, sfm, authVars, pipe, formVars>>

\* the wrapper has returned to the router
GuardDone ==
    /\ guard.handled
    /\ guard' = GuardIdle
    /\ UNCHANGED <<dbVars, csrf, fsFiles, static, sfm, authVars, pipe, formVars>>

GuardNext == GuardRequest \/ GuardDone

(***************************************************************************)
(* The composed pipeline: DBSessionMiddleware around StaticFilesMiddleware *)
(* around CSRFMiddleware around the handler                                *)
(***************************************************************************)

\* the tokens a pipeline request carries: None, or a string of one character
PipelineTokens == {t \in TokenValues : Len(t.chars) = 1} \cup {NoToken}

PipelineMethods == {"GET", "POST"}

\* what the handler does when it is reached: whether it used db_session,
\* what it raised, and what db_session.commit() raises afterwards; a commit
\* has nothing to fail on when no unit of work was created
HandlerOutcomes ==
    {o \in [worked : BOOLEAN, exc : {NoExc, "ValueError"},
            commitExc : {NoExc, "CommitError"}] :
        /\ o.commitExc # NoExc => (o.worked /\ o.exc = NoExc)}

NoOutcome == [worked |-> FALSE, exc |-> NoExc, commitExc |-> NoExc]

\* the chain with a CSRFMiddleware that raises its rejection instead of
\* sending it
PipelineCallRaisesRejection(type, method, cookie_token, form_token, path, static_url, static_dir, blueprint_statics, files, readFails, outcome) ==
    LET asset   == StaticFilesCall(type, path, static_url, static_dir,
                                   blueprint_statics, files, readFails)
        checked == CSRFCall(type, method, cookie_token, form_token)
        answeredBy == IF asset.downstream = 0 THEN "static"
                      ELSE IF checked.exc # NoExc THEN "error"
                      ELSE IF checked.downstream = 0 THEN "csrf"
                      ELSE "handler"
        reached == IF answeredBy = "handler" THEN outcome ELSE NoOutcome
        exc     == IF answeredBy = "error" THEN checked.exc
                   ELSE IF answeredBy = "csrf" THEN "RuntimeError"
                   ELSE reached.exc
    IN  [answeredBy |-> answeredBy,
         status |-> IF answeredBy = "static" THEN asset.response.status ELSE 0,
         outcome |-> reached, exc |-> exc,
         calls  |-> IF type = "http" THEN DBSessionCalls(exc, reached.commitExc) ELSE <<>>,
         raised |-> IF type = "http" THEN DBSessionPropagated(exc, reached.commitExc)
                    ELSE exc]

\* one request through the whole chain: who answered it, the status sent,
\* the exception that reached DBSessionMiddleware, the calls it made on
\* db_session and the exception that left it
PipelineCall(type, method, cookie_token, form_token, path, static_url, static_dir, blueprint_statics, files, readFails, outcome) ==
    LET asset   == StaticFilesCall(type, path, static_url, static_dir,
                                   blueprint_statics, files, readFails)
        checked == CSRFCall(type, method, cookie_token, form_token)
        answeredBy == IF asset.downstream = 0 THEN "static"
                      ELSE IF checked.exc # NoExc THEN "error"
                      ELSE IF checked.downstream = 0 THEN "csrf"
                      ELSE "handler"
        reached == IF answeredBy = "handler" THEN outcome ELSE NoOutcome
        exc     == IF answeredBy = "error" THEN checked.exc ELSE reached.exc
        status  == IF answeredBy = "static" THEN asset.response.status
                   ELSE IF answeredBy = "csrf" THEN checked.response.status
                   ELSE IF exc = NoExc THEN 200 ELSE 0
    IN  [answeredBy |-> answeredBy, status |-> status, outcome |-> reached, exc |-> exc,
         calls  |-> IF type = "http" THEN DBSessionCalls(exc, reached.commitExc) ELSE <<>>,
         raised |-> IF type = "http" THEN DBSessionPropagated(exc, reached.commitExc)
                    ELSE exc]

\* no request is in the pipeline
PipelineIdle ==
    [handled |-> FALSE, type |-> "http", method |-> "GET", cookie |-> NoToken,
     form |-> NoToken, path |-> <<>>, blueprint_statics |-> <<>>, readFails |-> FALSE,
     result |-> [answeredBy |-> "handler", status |-> 0, outcome |-> NoOutcome,
                 exc |-> NoExc, calls |-> <<>>, raised |-> NoExc]]

PipelineInit == pipe = PipelineIdle

\* one request goes through the pipeline
PipelineRequest ==
    /\ ~pipe.handled
    /\ \E type \in ScopeTypes, method \in PipelineMethods, cookie \in PipelineTokens,
          form \in PipelineTokens, path \in MiddlewarePaths,
          blueprint_statics \in BlueprintLists(1), readFails \in BOOLEAN,
          outcome \in HandlerOutcomes :
           /\ pipe' = [handled |-> TRUE, type |-> type, method |-> method,
                       cookie |-> cookie, form |-> form, path |-> path,
                       blueprint_statics |-> blueprint_statics, readFails |-> readFails,
                       result |-> PipelineCall(type, method, cookie, form, path,
                                               <<"/", "x">>, <<"s">>, blueprint_statics,
                                               fsFiles, readFails, outcome)]
           /\ UNCHANGED <<dbVars, csrf, fsFiles, static, sfm, authVars, guard, formVars>>

\* the response, or the exception, has reached the server
PipelineDone ==
    /\ pipe.handled
    /\ pipe' = PipelineIdle
    /\ UNCHANGED <<dbVars, csrf, fsFiles, static, sfm, authVars, guard, formVars>>

PipelineNext == FsChange \/ PipelineRequest \/ PipelineDone

(***************************************************************************)
(* Forms: Field, IntegerField, Form                                        *)
(***************************************************************************)

\* instances of the Form subclass that are constructed
NumForms == 2

\* longest errors list of a field
MaxErrors == 2

FormIds == 1..NumForms

\* the Form subclass under study declares age = IntegerField(validators=
\* [required]) and name = StringField(validators=[required]); dir() yields
\* the names in this order
FieldNames == <<"age", "name">>

FieldNameSet == {"age", "name"}

FieldClass(name) == IF name = "age" THEN "IntegerField" ELSE "StringField"

\* the value formdata holds for a name; "absent": the name is not a key
Absent == "absent"

FormValues == {Absent, "", "7", "x"}

\* the formdata dicts a form is constructed from
FormDatas == {fd \in [FieldNameSet -> FormValues] : fd["name"] \in {Absent, "x"}}

\* field.data: None, an int, or a str
NoData == [kind |-> "None", v |-> ""]

IntData(v) == [kind |-> "int", v |-> v]

StrData(v) == [kind |-> "str", v |-> v]

\* int(value) raises ValueError
IntRaises(value) == value # "7"

\* process_formdata(value) of the field class; value is Absent for None.
\* Yields the data assigned and whether ValidationError is raised.
ProcessFormdata(class, value) ==
    IF class = "IntegerField"
    THEN IF value = Absent \/ value = ""
         THEN [data |-> NoData, raised |-> FALSE]
         ELSE IF IntRaises(value)
         THEN [data |-> NoData, raised |-> TRUE]
         ELSE [data |-> IntData(value), raised |-> FALSE]
    ELSE [data |-> IF value = Absent THEN NoData ELSE StrData(value), raised |-> FALSE]

\* the validator `required` raises ValidationError when field.data is false
RequiredRaises(data) == data.kind = "None" \/ (data.kind = "str" /\ data.v = "")

\* Field.validate(form): errors is reset, then filled by the validators
FieldValidate(field) ==
    [data |-> field.data,
     errors |-> IF RequiredRaises(field.data) THEN <<"This field is required.">>
                ELSE <<>>]

\* a Field object as Field.__init__ leaves it
NewField == [data |-> NoData, errors |-> <<>>]

\* the second loop of Form.__init__ for one field object
PopulateField(name, field, formdata) ==
    LET processed == ProcessFormdata(FieldClass(name), formdata[name])
    IN  [data |-> processed.data,
         errors |-> IF formdata[name] # Absent /\ processed.raised
                    THEN Append(field.errors, "Not a valid integer.")
                    ELSE field.errors]

\* Form.__init__(formdata): getattr(self, name) is the Field object held by
\* the class, so the objects populated are those every instance refers to
FormConstructor(objs, formdata) ==
    [name \in FieldNameSet |-> PopulateField(name, objs[name], formdata)]

\* Form.validate(): fields that already have errors are skipped
FormValidate(objs) ==
    LET after == [name \in FieldNameSet |->
                     IF objs[name].errors = <<>> THEN FieldValidate(objs[name])
                     ELSE objs[name]]
    IN  [objs |-> after,
         success |-> \A name \in FieldNameSet :
                        objs[name].errors = <<>> => after[name].errors = <<>>]

\* form[name] for every name: what an instance sees through its fields
FormView(i) == [name \in FieldNameSet |-> fieldObjs[forms[i].fields[name]]]

NoForm ==
    [constructed |-> FALSE, fields |-> [name \in FieldNameSet |-> name],
     seen |-> [name \in FieldNameSet |-> NewField]]

\* every value of formdata is coerced without ValidationError
Coerces(formdata) ==
    \A name \in FieldNameSet : ~ProcessFormdata(FieldClass(name), formdata[name]).raised

FormInit ==
    /\ fieldObjs = [name \in FieldNameSet |-> NewField]
    /\ forms = [i \in FormIds |-> NoForm]
    /\ formOp = [op |-> "none", form |-> 0, ret |-> FALSE, coerced |-> FALSE]

\* form i is constructed from formdata
FormConstruct(i, formdata) ==
    LET objs == FormConstructor(fieldObjs, formdata)
    IN  /\ ~forms[i].constructed
        /\ \A name \in FieldNameSet : Len(objs[name].errors) <= MaxErrors
        /\ fieldObjs' = objs
        /\ forms' = [forms EXCEPT ![i] = [constructed |-> TRUE,
                                          fields |-> [name \in FieldNameSet |-> name],
                                          seen |-> objs]]
        /\ formOp' = [op |-> "construct", form |-> i, ret |-> FALSE,
                      coerced |-> Coerces(formdata)]
        /\ UNCHANGED <<dbVars, csrf, fsFiles, static, sfm, authVars, guard, pipe>>

\* form i is validated
FormValidateCall(i) ==
    LET result == FormValidate(fieldObjs)
    IN  /\ forms[i].constructed
        /\ fieldObjs' = result.objs
        /\ forms' = [forms EXCEPT ![i].seen = result.objs]
        /\ formOp' = [op |-> "validate", form |-> i, ret |-> result.success,
                      coerced |-> FALSE]
        /\ UNCHANGED <<dbVars, csrf, fsFiles, static, sfm, authVars, guard, pipe>>

\* the request is over and the instance is dropped
FormDiscard(i) ==
    /\ forms[i].constructed
    /\ forms' = [forms EXCEPT ![i] = NoForm]
    /\ formOp' = [op |-> "discard", form |-> i, ret |-> FALSE, coerced |-> FALSE]
    /\ UNCHANGED <<fieldObjs, dbVars, csrf, fsFiles, static, sfm, authVars, guard, pipe>>

FormNext ==
    \E i \in FormIds :
        \/ \E formdata \in FormDatas : FormConstruct(i, formdata)
        \/ FormValidateCall(i)
        \/ FormDiscard(i)

Init ==
    /\ DBInit /\ CSRFInit /\ StaticInit /\ StaticFilesInit /\ AuthInit /\ GuardInit
    /\ PipelineInit
    /\ FormInit

vars == <<db, uowPending, committed, csrf, fsFiles, static, sfm,
          authNow, authIssued, authUsers, auth, authConfig, authJar, guard, pipe, formVars>>

SpecAuth == Init /\ [][AuthNext]_vars

SpecGuard == Init /\ [][GuardNext]_vars

SpecStatic == Init /\ [][StaticNext]_vars

SpecStaticFiles == Init /\ [][StaticFilesNext]_vars

SpecDB == Init /\ [][DBNext]_vars

SpecCSRF == Init /\ [][CSRFNext]_vars

SpecPipeline == Init /\ [][PipelineNext]_vars

SpecForms == Init /\ [][FormNext]_vars

\* C4: a POST, PUT, PATCH or DELETE whose csrf_token cookie is absent, whose
\* submitted csrf_token field is absent, or whose two values differ, gets a
\* 403 with the body 'CSRF token missing or invalid.' and never reaches the
\* downstream application.
C4_RejectedWith403 ==
    (/\ csrf.handled
     /\ csrf.type = "http"
     /\ csrf.method \in ProtectedMethods
     /\ \/ ~csrf.cookie.present
        \/ ~csrf.form.present
        \/ csrf.cookie.chars # csrf.form.chars)
    => /\ csrf.result.response = [status |-> 403, body |-> "CSRF token missing or invalid."]
       /\ csrf.result.downstream = 0

\* C1: when the downstream chain of an http request raises an exception,
\* rollback is invoked exactly once, remove exactly once, commit never, and
\* the exception that leaves the middleware is the one downstream raised.
C1_RollbackAndReraise ==
    \A r \in Requests :
        (FinishedHttp(r) /\ db[r].exc \in HandlerExceptions) =>
            /\ Count(db[r].calls, "rollback") = 1
            /\ Count(db[r].calls, "remove") = 1
            /\ Count(db[r].calls, "commit") = 0
            /\ db[r].raised = db[r].exc

C1_Witness ==
    \E r \in Requests :
        FinishedHttp(r) /\ db[r].exc = "ValueError" /\ db[r].worked

\* the outcomes C2 names: downstream returned, downstream raised an
\* exception, or commit itself raised
C2_Outcome(r) ==
    FinishedHttp(r) /\ db[r].exc \in {NoExc} \cup HandlerExceptions

\* C2 as stated: in every outcome exactly one of commit and rollback is
\* invoked before remove, never both and never neither, and remove is
\* invoked exactly once.
C2_Original ==
    \A r \in Requests :
        C2_Outcome(r) =>
            /\ Count(db[r].calls, "commit") + Count(db[r].calls, "rollback") = 1
            /\ Count(db[r].calls, "remove") = 1
            /\ db[r].calls[Len(db[r].calls)] = "remove"

\* C2 as amended: remove is invoked exactly once and last; before it commit
\* or rollback is invoked, never neither; both are invoked, commit then
\* rollback, exactly when commit itself raised, otherwise exactly one.
C2_CommitOrRollbackThenRemove ==
    \A r \in Requests :
        C2_Outcome(r) =>
            LET calls == db[r].calls
                both  == Count(calls, "commit") = 1 /\ Count(calls, "rollback") = 1
            IN  /\ Count(calls, "remove") = 1
                /\ calls[Len(calls)] = "remove"
                /\ Count(calls, "commit") <= 1
                /\ Count(calls, "rollback") <= 1
                /\ Count(calls, "commit") + Count(calls, "rollback") >= 1
                /\ both <=> (db[r].commitExc # NoExc)
                /\ both => IndexOf(calls, "commit") < IndexOf(calls, "rollback")
                /\ (db[r].exc # NoExc) => calls = <<"rollback", "remove">>

C2_Witness ==
    \E r \in Requests :
        FinishedHttp(r) /\ db[r].exc = NoExc /\ db[r].commitExc = "CommitError"

\* C3: a request cancelled while its downstream chain is suspended still
\* gets rollback and then remove before the cancellation leaves the
\* middleware.
C3_CancelRollsBack ==
    \A r \in Requests :
        (FinishedHttp(r) /\ db[r].exc = "CancelledError") =>
            /\ Count(db[r].calls, "rollback") = 1
            /\ Count(db[r].calls, "remove") = 1
            /\ IndexOf(db[r].calls, "rollback") < IndexOf(db[r].calls, "remove")

C5_OnlyFilesUnderRoot ==
    (static.handled /\ (static.result.status = 200 \/ static.result.opened # NoFile))
    => IsUnder(static.result.opened, AbsPath(static.static_dir))

\* the relative part of the request path leaves the root directory
C6_ClimbsAboveRoot ==
    /\ static.handled
    /\ StartsWith(static.request_path, static.static_url)
    /\ LET base == AbsPath(static.static_dir)
           rel  == LStripSlash(SubSeq(static.request_path, Len(static.static_url) + 1,
                                      Len(static.request_path)))
       IN  ~IsUnder(NormPath(PathJoin(base, rel)), base)

\* C6: a request path under the url prefix whose relative part climbs above
\* the root directory gets 403, whether or not the target file exists.
C6_TraversalIs403 ==
    C6_ClimbsAboveRoot => static.result.status = 403

\* the session cookie is a non-empty value that does not verify
C7_VerificationFails ==
    /\ auth.handled
    /\ auth.cookie.present /\ auth.cookie.parts # <<>>
    /\ auth.result.loads \notin {NoExc, "NotCalled"}

\* C7: a non-empty session cookie that fails verification makes
\* get_current_user return None, raise nothing and leave the loader alone; a
\* request without session cookie returns None without verification.
C7_InvalidTokenIsAnonymous ==
    /\ C7_VerificationFails =>
           /\ auth.result.ret = NoneUser
           /\ auth.result.exc = NoExc
           /\ auth.result.loaderCalls = <<>>
    /\ (auth.handled /\ ~auth.cookie.present) =>
           /\ auth.result.ret = NoneUser
           /\ auth.result.exc = NoExc
           /\ auth.result.loads = "NotCalled"
           /\ auth.result.loaderCalls = <<>>

\* C8: login_required called for an anonymous caller returns the redirect
\* to 'auth.login' and never calls the wrapped handler.
C8_AnonymousIsRedirected ==
    (guard.handled /\ guard.which = "login_required" /\ guard.user.none) =>
        /\ guard.result.response = [kind |-> "redirect", endpoint |-> "auth.login",
                                    result |-> 0]
        /\ guard.result.handlerCalls = <<>>

C8_Witness ==
    guard.handled /\ guard.which = "login_required" /\ guard.user.none

\* C9: admin_required calls the wrapped handler only for a caller that is
\* not anonymous and whose is_admin flag is true; in every other case it
\* returns the redirect to 'admin.index' and does not call the handler.
C9_OnlyAdminsReachHandler ==
    (guard.handled /\ guard.which = "admin_required") =>
        /\ guard.result.handlerCalls # <<>> =>
               (~guard.user.none /\ guard.user.is_admin = "true")
        /\ (guard.user.none \/ guard.user.is_admin # "true") =>
               /\ guard.result.response = [kind |-> "redirect",
                                           endpoint |-> "admin.index", result |-> 0]
               /\ guard.result.handlerCalls = <<>>

C9_Witness ==
    /\ guard.handled /\ guard.which = "admin_required"
    /\ ~guard.user.none /\ guard.user.truthy /\ guard.user.is_admin = "false"
    /\ guard.result.response.kind = "redirect"

\* a token as the server issues it: present, not empty, ASCII
C11_IssuedToken(tok) == tok.present /\ tok.chars # <<>> /\ IsAscii(tok.chars)

\* C11: a POST with a JSON body whose csrf_token field equals the csrf_token
\* cookie (a token the server issued) reaches the handler, and the same POST
\* without the field gets 403: the token is read from a JSON body as it is
\* from a form body.
C11_JsonTokenAccepted ==
    (csrf.handled /\ csrf.type = "http" /\ csrf.method = "POST" /\ csrf.body = "json") =>
        /\ (C11_IssuedToken(csrf.cookie) /\ csrf.field = csrf.cookie) =>
               /\ csrf.result.downstream = 1
               /\ csrf.result.response.status = 0
               /\ csrf.result.exc = NoExc
        /\ (C11_IssuedToken(csrf.cookie) /\ ~csrf.field.present) =>
               /\ csrf.result.response = [status |-> 403,
                                          body |-> "CSRF token missing or invalid."]
               /\ csrf.result.downstream = 0

C11_Witness ==
    /\ csrf.handled /\ csrf.type = "http" /\ csrf.method = "POST" /\ csrf.body = "json"
    /\ C11_IssuedToken(csrf.cookie) /\ csrf.field = csrf.cookie
    /\ csrf.result.downstream = 1

\* C12: a POST, PUT, PATCH or DELETE whose csrf_token cookie and submitted
\* csrf_token field are present, non-empty and equal gets no response from
\* CSRFMiddleware and reaches the downstream application exactly once.
C12_MatchingTokensPass ==
    (/\ csrf.handled /\ csrf.type = "http" /\ csrf.method \in ProtectedMethods
     /\ csrf.cookie.present /\ csrf.form.present
     /\ csrf.cookie.chars # <<>>
     /\ csrf.cookie.chars = csrf.form.chars)
    => /\ csrf.result.response.status = 0
       /\ csrf.result.downstream = 1
       /\ csrf.result.exc = NoExc

\* C13: an http request whose method is not POST, PUT, PATCH or DELETE is
\* never rejected, its body is never read, and it reaches the downstream
\* application exactly once, whatever tokens it carries.
C13_SafeMethodsPass ==
    (csrf.handled /\ csrf.type = "http"
        /\ csrf.method \notin {"POST", "PUT", "PATCH", "DELETE"})
    => /\ csrf.result.response.status = 0
       /\ ~csrf.result.bodyRead
       /\ csrf.result.downstream = 1
       /\ csrf.result.exc = NoExc

C13_Witness ==
    /\ csrf.handled /\ csrf.type = "http" /\ csrf.method = "GET"
    /\ ~csrf.cookie.present /\ ~csrf.field.present
    /\ csrf.result.downstream = 1

C15_FullPath ==
    NormPath(PathJoin(AbsPath(static.static_dir),
                      LStripSlash(SubSeq(static.request_path, Len(static.static_url) + 1,
                                         Len(static.request_path)))))

\* the request matches the url prefix and passes the containment check
C15_Resolved ==
    /\ static.handled
    /\ StartsWith(static.request_path, static.static_url)
    /\ StartsWith(C15_FullPath, AbsPath(static.static_dir))

\* C15: for a request that matches the prefix and passes the containment
\* check the status is 404 if the resolved path is not a regular file,
\* otherwise 500 if reading fails, otherwise 200 with the bytes of that file
\* and the content type of its extension, application/octet-stream when the
\* extension is unknown.
C15_StatusOrder ==
    C15_Resolved =>
        LET full == C15_FullPath
            css  == Len(full) > 4 /\ SubSeq(full, Len(full) - 3, Len(full)) = <<".", "c", "s", "s">>
        IN  /\ static.result.status \in {200, 404, 500}
            /\ full \notin fsFiles =>
                   (static.result.status = 404 /\ static.result.file = NoFile)
            /\ (full \in fsFiles /\ static.readFails) =>
                   (static.result.status = 500 /\ static.result.file = NoFile)
            /\ (full \in fsFiles /\ ~static.readFails) =>
                   /\ static.result.status = 200
                   /\ static.result.file = full
                   /\ static.result.content_type =
                          IF css THEN "text/css" ELSE "application/octet-stream"

C15_Witness ==
    /\ C15_Resolved
    /\ static.result.status = 200
    /\ static.result.content_type = "application/octet-stream"
    /\ IsUnder(static.result.file, AbsPath(static.static_dir))

\* the blueprints whose url prefix the request path starts with
C16_Matching ==
    {i \in 1..Len(sfm.blueprint_statics) :
        /\ sfm.blueprint_statics[i].static_url_path # <<>>
        /\ StartsWith(sfm.path, sfm.blueprint_statics[i].static_url_path)}

\* C16: blueprint roots are checked before the global root, and a request
\* path that matches several blueprint prefixes is resolved against the
\* blueprint with the longest matching prefix, in whatever order the
\* blueprints were registered.
C16_MostSpecificRootFirst ==
    (sfm.handled /\ sfm.type = "http" /\ C16_Matching # {}) =>
        /\ sfm.result.root = "blueprint"
        /\ \A i \in C16_Matching :
               Len(sfm.blueprint_statics[sfm.result.index].static_url_path)
                   >= Len(sfm.blueprint_statics[i].static_url_path)

\* C17: when the token of the session cookie verifies, get_current_user
\* calls the user loader exactly once, with the identity id the token was
\* issued for, and returns what the loader yields: the user, or None when
\* the identity no longer exists.
C17_LoaderResultReturned ==
    (auth.handled /\ auth.result.loads = NoExc) =>
        \E i \in UserIds :
            /\ auth.cookie.parts[1] = IdPart(i)
            /\ auth.result.loaderCalls = <<i>>
            /\ auth.result.ret = UserLoader(i, authUsers)
            /\ auth.result.exc = NoExc

\* a verified token of an identity that has been deleted: None is returned
C17_Witness ==
    /\ auth.handled
    /\ auth.result.loads = NoExc
    /\ auth.result.loaderCalls = <<2>>
    /\ auth.result.ret = NoneUser

\* seconds between the issue of the presented token and now
C18_Elapsed == authNow - auth.cookie.parts[2].n

\* C18: a token issued by login_user for identity i and presented less than
\* 2,592,000 seconds later decodes to i (the loader is called with i);
\* presented more than 2,592,000 seconds later it is expired: the loader is
\* not called and the caller is anonymous.
C18_FreshDecodesExpiredIsAnonymous ==
    (auth.handled /\ auth.cookie.present /\ auth.cookie.parts \in authIssued) =>
        /\ C18_Elapsed < 2592000 =>
               auth.result.loaderCalls = <<auth.cookie.parts[1].n>>
        /\ C18_Elapsed > 2592000 =>
               /\ auth.result.loaderCalls = <<>>
               /\ auth.result.ret = NoneUser
               /\ auth.result.exc = NoExc

\* an issued token presented one second after its maximum age
C18_Witness ==
    /\ auth.handled
    /\ auth.cookie.present
    /\ auth.cookie.parts \in authIssued
    /\ C18_Elapsed = 2592000 + 1
    /\ auth.result.loads = "SignatureExpired"

\* no remove of request r comes before a commit or a rollback of r
C19_RemoveNotBefore(r) ==
    \A i, j \in 1..Len(db[r].calls) :
        (db[r].calls[i] = "remove" /\ db[r].calls[j] \in {"commit", "rollback"}) => j < i

\* C19 as stated: when the downstream chain of an http request returns
\* normally, commit is invoked exactly once and then remove exactly once,
\* rollback never; and remove is never invoked before the commit or
\* rollback of the same request.
C19_Original ==
    \A r \in Requests :
        FinishedHttp(r) =>
            /\ db[r].exc = NoExc => db[r].calls = <<"commit", "remove">>
            /\ C19_RemoveNotBefore(r)

\* C19 as amended: on normal return commit is invoked exactly once, first,
\* and remove exactly once, last; rollback is invoked, once and between the
\* two, exactly when commit itself raised; and in every execution remove
\* comes after the commit and rollback of the same request.
C19_CommitThenRemove ==
    \A r \in Requests :
        FinishedHttp(r) =>
            /\ db[r].exc = NoExc =>
                   db[r].calls = IF db[r].commitExc = NoExc
                                 THEN <<"commit", "remove">>
                                 ELSE <<"commit", "rollback", "remove">>
            /\ C19_RemoveNotBefore(r)

\* a request that did work, returned normally and was committed
C19_Witness ==
    \E r \in Requests :
        /\ FinishedHttp(r)
        /\ db[r].worked
        /\ db[r].exc = NoExc
        /\ db[r].commitExc = NoExc
        /\ db[r].calls = <<"commit", "remove">>

\* the precondition of the guard called: the caller is not anonymous and,
\* for admin_required, its is_admin flag is true
C20_Precondition ==
    /\ ~guard.user.none
    /\ guard.which = "admin_required" => guard.user.is_admin = "true"

\* C20: when the precondition of the guard holds, the wrapped handler is
\* called exactly once with the arguments the wrapper was called with, and
\* the wrapper returns the handler's result, for a synchronous handler and
\* for a coroutine handler alike.
C20_HandlerCalledTransparently ==
    (guard.handled /\ C20_Precondition) =>
        /\ guard.result.handlerCalls = <<guard.arg>>
        /\ guard.result.response = [kind |-> "handler", endpoint |-> "",
                                    result |-> guard.arg]

\* C21: the serializer and the user loader stay what init_auth made them
\* through every login_user, logout_user and get_current_user, so every
\* token issued by login_user still decodes to its identity while it is
\* younger than the maximum age.
C21_AuthConfigNeverChanged ==
    /\ authConfig = [serializer |-> "secret", user_loader |-> "user_loader_func"]
    /\ \A t \in authIssued :
           authNow - t[2].n < 2592000 =>
               Loads(t, 2592000, authNow, authConfig.serializer)
                   = [exc |-> NoExc, user_id |-> t[1].n]

\* a token still resolves after its holder has logged out and time has passed
C21_Witness ==
    /\ auth.handled
    /\ auth.cookie.present
    /\ auth.cookie.parts \in authIssued
    /\ ~authJar.present
    /\ authNow > auth.cookie.parts[2].n
    /\ auth.result.loaderCalls = <<auth.cookie.parts[1].n>>

\* the configured roots in the order the middleware looks at them: the
\* blueprints that have a static url, then the global root
C22_Roots ==
    LET RECURSIVE Configured(_)
        Configured(bps) ==
            IF bps = <<>> THEN <<>>
            ELSE (IF Head(bps).static_url_path # <<>>
                  THEN <<[static_url |-> Head(bps).static_url_path,
                          static_dir |-> Head(bps).static_folder]>>
                  ELSE <<>>) \o Configured(Tail(bps))
    IN  Configured(sfm.blueprint_statics)
            \o <<[static_url |-> sfm.static_url, static_dir |-> sfm.static_dir]>>

\* positions in C22_Roots of the roots whose prefix the path starts with
C22_Matching == {i \in 1..Len(C22_Roots) : StartsWith(sfm.path, C22_Roots[i].static_url)}

\* C22: for an http request whose path starts with the prefix of some
\* root, serve_static is called for the first such root only, its response
\* is what is sent whatever its status, and downstream is not called; when
\* no prefix matches or the scope is not http, nothing is served and
\* downstream is called exactly once.
C22_FirstMatchShortCircuits ==
    sfm.handled =>
        IF sfm.type = "http" /\ C22_Matching # {}
        THEN LET first == C22_Roots[CHOOSE k \in C22_Matching :
                                       \A j \in C22_Matching : k <= j]
             IN  /\ sfm.result.calls = <<first>>
                 /\ sfm.result.response
                        = ServeStatic(sfm.path, first.static_url, first.static_dir,
                                      fsFiles, sfm.readFails)
                 /\ sfm.result.downstream = 0
        ELSE /\ sfm.result.calls = <<>>
             /\ sfm.result.response = NoStaticResponse
             /\ sfm.result.downstream = 1

\* the first matching root answers 404 although a later root has the file
C22_Witness ==
    /\ sfm.handled
    /\ sfm.type = "http"
    /\ sfm.result.root = "blueprint"
    /\ sfm.result.response.status = 404
    /\ \E i \in C22_Matching :
           ServeStatic(sfm.path, C22_Roots[i].static_url, C22_Roots[i].static_dir,
                       fsFiles, sfm.readFails).status = 200

\* the empty string, sent as a token
C24_EmptyToken == [present |-> TRUE, chars |-> <<>>]

\* C24: a state-changing http request whose csrf_token cookie and field are
\* both the empty string is rejected with 403, and such a request reaches
\* downstream only when both values are non-empty and equal.
C24_EmptyTokensRejected ==
    (csrf.handled /\ csrf.type = "http"
        /\ csrf.method \in {"POST", "PUT", "PATCH", "DELETE"}) =>
        /\ (csrf.cookie = C24_EmptyToken /\ csrf.form = C24_EmptyToken) =>
               /\ csrf.result.response
                      = [status |-> 403, body |-> "CSRF token missing or invalid."]
               /\ csrf.result.downstream = 0
               /\ csrf.result.exc = NoExc
        /\ csrf.result.downstream > 0 =>
               /\ csrf.cookie.present /\ csrf.cookie.chars # <<>>
               /\ csrf.form.present /\ csrf.form.chars # <<>>
               /\ csrf.cookie.chars = csrf.form.chars

\* a POST whose cookie and form field are both the empty string
C24_Witness ==
    /\ csrf.handled /\ csrf.type = "http" /\ csrf.method = "POST"
    /\ csrf.cookie = C24_EmptyToken
    /\ csrf.body = "form" /\ csrf.form = C24_EmptyToken
    /\ csrf.result.response.status = 403

\* C23: an http request answered inside the pipeline without reaching the
\* handler, by the 403 of CSRFMiddleware or by StaticFilesMiddleware with
\* whatever status, returns normally to DBSessionMiddleware: commit is
\* invoked once, then remove, and rollback is not invoked; rollback is
\* invoked only when an exception reached or arose in DBSessionMiddleware.
C23_InterceptedRequestCommits ==
    (pipe.handled /\ pipe.type = "http") =>
        /\ pipe.result.answeredBy \in {"csrf", "static"} =>
               /\ pipe.result.calls = <<"commit", "remove">>
               /\ pipe.result.raised = NoExc
        /\ Count(pipe.result.calls, "rollback") > 0 => pipe.result.raised # NoExc

\* a POST without tokens, rejected by CSRFMiddleware with 403
C23_Witness ==
    /\ pipe.handled /\ pipe.type = "http" /\ pipe.method = "POST"
    /\ pipe.result.answeredBy = "csrf"
    /\ pipe.result.status = 403
    /\ pipe.result.calls = <<"commit", "remove">>

\* C25: when Form.validate() has returned True, no field of the form has
\* an error, the error of a failed coercion in the constructor included.
C25_TrueMeansNoErrors ==
    (formOp.op = "validate" /\ formOp.ret) =>
        \A name \in FieldNameSet : FormView(formOp.form)[name].errors = <<>>

\* C26: what an instance sees through its fields is what its own last
\* construction or validation left there, whatever was done with other
\* instances since; and an instance just constructed from data that
\* coerces has no error in its fields.
C26_FieldStatePerInstance ==
    /\ \A i \in FormIds : forms[i].constructed => FormView(i) = forms[i].seen
    /\ (formOp.op = "construct" /\ formOp.coerced)
          => \A name \in FieldNameSet : FormView(formOp.form)[name].errors = <<>>

====
